---- MODULE Spec2Model ----
(***************************************************************************)
(* One run of QuizSolver.run (src/solver.py) as a state machine.  Every    *)
(* external operation of the run (a browser call, a download, the POST)    *)
(* is a step whose outcome the environment chooses; the page the browser   *)
(* renders is chosen in Init and never changes during the run.             *)
(***************************************************************************)
EXTENDS Integers, Sequences, FiniteSets, TLC

VARIABLES
    page,              \* the rendered page: what its markup and text contain
    pc,                \* position of the run inside QuizSolver.run
    playwright,        \* the sync_playwright() scope: "none" | "started" | "stopped"
    browser,           \* "none" | "open" | "closed"
    context,           \* "none" | "open" | "closed"
    text,              \* run's local `text` (visible text as read at line 300)
    submit_info,       \* parse_submit_instruction(html, text)["submit_url"]
    page_html,         \* run's local `page_html_for_result`
    ri,                \* index of the next raw URL of the decoded payload
    csteps,            \* debug["steps"] of compute_answer_from_page_content
    answer,            \* result of compute_answer_from_page_content
    candidate_answer,  \* run's local `candidate_answer`
    steps,             \* debug["steps"] of run
    attempted,         \* debug["attempted_answer"]
    submit_url,        \* run's local `submit_url`
    posts,             \* number of requests.post calls issued
    post_raised,       \* a requests.post call has raised
    downloads,         \* number of asset downloads started
    failed,            \* kinds of failure that have occurred outside the POST
    escaped,           \* the exception that reached run's top-level handlers
    result,            \* the value run returns
    responses,         \* app.py: the HTTP responses api_solve has produced
    threads            \* app.py: the background workers api_solve has started

runvars == <<page, pc, playwright, browser, context, text, submit_info, page_html,
             ri, csteps, answer, candidate_answer, steps, attempted, submit_url,
             posts, post_raised, downloads, failed, escaped, result>>

apivars == <<responses, threads>>

vars == <<runvars, apivars>>

-----------------------------------------------------------------------------
(* Bounds *)

MaxRawUrls == 1        \* raw URLs in a decoded payload
MaxRequests == 2       \* POST /api/solve requests handled

-----------------------------------------------------------------------------
(* Values *)

None == "None"
True == "True"

\* What a text can contain, as far as the run's regular expressions look:
\*   "number"        a match of [-+]?[0-9]*\.?[0-9]+         (solver.py:250)
\*   "true_or_false" a match of \btrue or false\b            (solver.py:425)
\*   "sum_phrase"    a match of sum of the <col> column.*page\s*\d+ (solver.py:405)
\* The sum phrase ends in \d+, so a text that holds it holds a number.
\*   "submit_url"    a match of https?://.../submit...          (utils.py:134)
Phrases == {"number", "true_or_false", "sum_phrase", "submit_url"}

Texts == {t \in SUBSET Phrases : "sum_phrase" \in t => "number" \in t}

EmptyText == {}

\* The payload found by extract_base64_from_page_html, after decoding:
\*   parsed  find_json_in_text gives a non-empty object
\*   ans     the object's "answer" field (None: missing or null)
\*   url     the object has a "url" field
\*   raw     number of raw http(s) URLs in the decoded text
NoPayload == [present |-> FALSE, parsed |-> FALSE, ans |-> None, url |-> FALSE, raw |-> 0]

Payloads ==
    {NoPayload} \cup
    {p \in [present : {TRUE}, parsed : BOOLEAN, ans : {None, "42"},
            url : BOOLEAN, raw : 0..MaxRawUrls] :
        ~p.parsed => (p.ans = None /\ ~p.url)}

\* Anchors of the page by suffix of their href (solver.py:334-336)
LinkSets == SUBSET {"pdf", "csv"}

\* Where the markup holds a /submit URL: matched by the pattern on the raw
\* markup ("html"), or a string value of the JSON object in <pre> ("pre")
MarkupSubmitSources == SUBSET {"html", "pre"}

Pages == [text : Texts, payload : Payloads, links : LinkSets, tables : BOOLEAN,
          submit : MarkupSubmitSources]

Kinds == {"timeout", "error"}

Statuses == {"submitted", "no_answer", "no_submit_url", "no_action",
             "submit_failed", "playwright_timeout", "error"}

NoDebug == [steps |-> <<>>, attempted_answer |-> None, submit_url |-> None,
            compute_steps |-> <<>>]

NoResult == [status |-> "none", has_debug |-> FALSE, debug |-> NoDebug,
             has_error |-> FALSE, submit_code |-> None]

-----------------------------------------------------------------------------
(* Pure helpers *)

HasNumber(t) == "number" \in t

HasSumPhrase(t) == "sum_phrase" \in t

HasTrueOrFalse(t) == "true_or_false" \in t

InSeq(x, s) == \E i \in 1..Len(s) : s[i] = x

\* parse_submit_instruction that looks at the visible text before <pre>
parse_submit_instruction_TextFirst(src, visible_text) ==
    IF "html" \in src THEN "html_url"
    ELSE IF "submit_url" \in visible_text THEN "text_url"
    ELSE IF "pre" \in src THEN "pre_url"
    ELSE None

\* utils.parse_submit_instruction: raw markup first, then a string value of
\* the JSON in <pre>, then the visible text as it was read.
parse_submit_instruction(src, visible_text) ==
    IF "html" \in src THEN "html_url"
    ELSE IF "pre" \in src THEN "pre_url"
    ELSE IF "submit_url" \in visible_text THEN "text_url"
    ELSE None

\* run's choice of submit_url: the locator's finding, else the same pattern
\* on the raw markup (which the locator has already tried).
ResolveSubmitUrl(info, src) ==
    IF info # None THEN info
    ELSE IF "html" \in src THEN "html_url"
    ELSE None

\* HandlerStatus with the generic handler reporting a timeout as well
HandlerStatus_TimeoutOnly(kind) == "playwright_timeout"

\* The handlers at the end of run: the status an escaped exception becomes
HandlerStatus(kind) ==
    IF kind = "timeout" THEN "playwright_timeout" ELSE "error"

\* Lines 480-485: the dict a handler returns: status and str(e), no debug
HandlerResult(kind) ==
    [status |-> HandlerStatus(kind), has_debug |-> FALSE, debug |-> NoDebug,
     has_error |-> TRUE, submit_code |-> None]

\* ScopeExit that leaves what the run holds as it is
ScopeExit_Leak(b) == b

\* What leaving the `with sync_playwright()` block does to a browser or a
\* context the run still holds: stopping Playwright closes it.
ScopeExit(b) == IF b = "open" THEN "closed" ELSE b

\* The debug dict of run: its steps, "attempted_answer", "submit_url" and the
\* steps of compute_info
DebugOf(st, att, su, cst) ==
    [steps |-> st, attempted_answer |-> att, submit_url |-> su,
     compute_steps |-> cst]

Debug == DebugOf(steps, attempted, submit_url, csteps)

-----------------------------------------------------------------------------
(* Initial state: run is called with a task; nothing is acquired yet *)

Init ==
    /\ page \in Pages
    /\ pc = "launch"
    /\ playwright = "none"
    /\ browser = "none"
    /\ context = "none"
    /\ text = EmptyText
    /\ submit_info = None
    /\ page_html = None
    /\ ri = 1
    /\ csteps = <<>>
    /\ answer = None
    /\ candidate_answer = None
    /\ steps = <<>>
    /\ attempted = None
    /\ submit_url = None
    /\ posts = 0
    /\ post_raised = FALSE
    /\ downloads = 0
    /\ failed = {}
    /\ escaped = "none"
    /\ result = NoResult
    /\ responses = <<>>
    /\ threads = <<>>

\* An exception of kind k leaves the try block: the with block (if entered)
\* is left, and the matching handler builds the result.
Raise(k, entered) ==
    /\ escaped' = k
    /\ failed' = failed \cup {k}
    /\ result' = HandlerResult(k)
    /\ playwright' = IF entered THEN "stopped" ELSE playwright
    /\ browser' = IF entered THEN ScopeExit(browser) ELSE browser
    /\ context' = IF entered THEN ScopeExit(context) ELSE context
    /\ pc' = "done"

\* Lines 287-291: enter the Playwright scope, launch, new context, new page
Launch ==
    /\ pc = "launch"
    /\ \/ /\ playwright' = "started"
          /\ browser' = "open"
          /\ context' = "open"
          /\ pc' = "goto"
          /\ UNCHANGED <<failed, escaped, result>>
       \/ \E k \in Kinds, at \in {"enter", "launch", "new_context", "new_page"} :
            /\ escaped' = k
            /\ failed' = failed \cup {k}
            /\ result' = HandlerResult(k)
            /\ playwright' = IF at = "enter" THEN "none" ELSE "stopped"
            /\ browser' = IF at \in {"new_context", "new_page"} THEN ScopeExit("open") ELSE "none"
            /\ context' = IF at = "new_page" THEN ScopeExit("open") ELSE "none"
            /\ pc' = "done"
    /\ UNCHANGED <<post_raised, page, text, submit_info, page_html, ri, csteps, answer,
                   candidate_answer, steps, attempted, submit_url, posts, downloads>>
    /\ UNCHANGED apivars

\* Line 294: page.goto(url, wait_until="networkidle")
Goto ==
    /\ pc = "goto"
    /\ \/ /\ pc' = "content"
          /\ UNCHANGED <<playwright, browser, context, failed, escaped, result>>
       \/ \E k \in Kinds : Raise(k, TRUE)
    /\ UNCHANGED <<post_raised, page, text, submit_info, page_html, ri, csteps, answer,
                   candidate_answer, steps, attempted, submit_url, posts, downloads>>
    /\ UNCHANGED apivars

\* Line 297: html = page.content()
Content ==
    /\ pc = "content"
    /\ \/ /\ pc' = "inner_text"
          /\ UNCHANGED <<playwright, browser, context, failed, escaped, result>>
       \/ \E k \in Kinds : Raise(k, TRUE)
    /\ UNCHANGED <<post_raised, page, text, submit_info, page_html, ri, csteps, answer,
                   candidate_answer, steps, attempted, submit_url, posts, downloads>>
    /\ UNCHANGED apivars

\* Lines 298-308: read the visible text (any failure leaves it empty), note
\* "page_loaded", and locate the submit instruction.
InnerText ==
    /\ pc = "inner_text"
    /\ \/ /\ text' = page.text
          /\ UNCHANGED failed
       \/ \E k \in Kinds :
            /\ text' = EmptyText
            /\ failed' = failed \cup {k}
    /\ steps' = Append(steps, "page_loaded")
    /\ submit_info' = parse_submit_instruction(page.submit, text')
    /\ pc' = "query_result"
    /\ UNCHANGED <<post_raised, page, playwright, browser, context, page_html, ri, csteps,
                   answer, candidate_answer, attempted, submit_url, posts,
                   downloads, escaped, result>>
    /\ UNCHANGED apivars

\* Lines 311-317: look for #result and take its inner HTML; a missing element
\* or any failure leaves page_html_for_result at None.
QueryResult ==
    /\ pc = "query_result"
    /\ \/ /\ page_html' \in {None, "result_html"}
          /\ UNCHANGED failed
       \/ \E k \in Kinds :
            /\ page_html' = None
            /\ failed' = failed \cup {k}
    /\ pc' = "compute_html"
    /\ UNCHANGED <<post_raised, page, playwright, browser, context, text, submit_info, ri,
                   csteps, answer, candidate_answer, steps, attempted,
                   submit_url, posts, downloads, escaped, result>>
    /\ UNCHANGED apivars

\* NeedsFallback without its test: the older heuristics always run
NeedsFallback_Always(ans) == TRUE

\* Lines 329-331: the later heuristics run only when compute gave no answer
NeedsFallback(ans) == ans = None

\* compute_answer_from_page_content returns ans; lines 320-331 of run record
\* it and choose between the answer and the older heuristics.
ComputeReturns(ans) ==
    /\ answer' = ans
    /\ steps' = Append(steps, IF ans # None THEN "answer_computed"
                                            ELSE "no_answer_computed")
    /\ candidate_answer' = ans
    /\ pc' = IF NeedsFallback(ans) THEN "assets" ELSE "find_submit"

\* Lines 185-192: with no page_html given, compute asks for #result again and
\* falls back to page.content(); a failure of that last call ends compute
\* through its outer handler (lines 256-260).
ComputeHtml ==
    /\ pc = "compute_html"
    /\ \/ /\ pc' = "compute_decoded"
          /\ UNCHANGED <<failed, answer, steps, candidate_answer>>
       \/ /\ page_html = None
          /\ \E k \in Kinds :
               /\ failed' = failed \cup {k}
               /\ \/ /\ pc' = "compute_decoded"
                     /\ UNCHANGED <<answer, steps, candidate_answer>>
                  \/ ComputeReturns(None)
    /\ UNCHANGED <<post_raised, page, playwright, browser, context, text, submit_info,
                   page_html, ri, csteps, attempted, submit_url, posts,
                   downloads, escaped, result>>
    /\ UNCHANGED apivars

\* HasDirectAnswer that never finds the field
HasDirectAnswer_Never(p) == FALSE

\* Line 203: the parsed object has an "answer" field that is not null
HasDirectAnswer(p) == p.ans # None

\* Lines 195-208: decode the payload; a non-null "answer" field is returned
\* at once, a "url" field is downloaded next, then the raw URLs are tried.
ComputeDecoded ==
    /\ pc = "compute_decoded"
    /\ LET p == page.payload IN
       IF ~p.present THEN
          /\ pc' = "compute_body"
          /\ UNCHANGED <<csteps, answer, steps, candidate_answer>>
       ELSE IF ~p.parsed THEN
          /\ csteps' = Append(csteps, "decoded_atob")
          /\ pc' = "compute_raw_urls"
          /\ UNCHANGED <<answer, steps, candidate_answer>>
       ELSE IF HasDirectAnswer(p) THEN
          /\ csteps' = csteps \o <<"decoded_atob", "found_json_in_decoded">>
          /\ ComputeReturns(p.ans)
       ELSE IF p.url THEN
          /\ csteps' = csteps \o <<"decoded_atob", "found_json_in_decoded",
                                    "decoded_json_has_url">>
          /\ pc' = "compute_json_url"
          /\ UNCHANGED <<answer, steps, candidate_answer>>
       ELSE
          /\ csteps' = csteps \o <<"decoded_atob", "found_json_in_decoded">>
          /\ pc' = "compute_raw_urls"
          /\ UNCHANGED <<answer, steps, candidate_answer>>
    /\ UNCHANGED <<post_raised, page, playwright, browser, context, text, submit_info,
                   page_html, ri, attempted, submit_url, posts, downloads,
                   failed, escaped, result>>
    /\ UNCHANGED apivars

\* Lines 209-224: download the object's url and sum it; a failure is logged
\* and the raw URLs are tried next.
ComputeJsonUrl ==
    /\ pc = "compute_json_url"
    /\ downloads' = downloads + 1
    /\ \/ /\ ComputeReturns("decoded_asset_sum")
          /\ UNCHANGED failed
       \/ /\ pc' = "compute_raw_urls"
          /\ UNCHANGED <<failed, answer, steps, candidate_answer>>
       \/ /\ pc' = "compute_raw_urls"
          /\ failed' = failed \cup {"error"}
          /\ UNCHANGED <<answer, steps, candidate_answer>>
    /\ UNCHANGED <<post_raised, page, playwright, browser, context, text, submit_info,
                   page_html, ri, csteps, attempted, submit_url, posts,
                   escaped, result>>
    /\ UNCHANGED apivars

\* Lines 227-241: each raw URL of the decoded text in turn, until one gives
\* an answer.
ComputeRawUrl ==
    /\ pc = "compute_raw_urls"
    /\ ri <= page.payload.raw
    /\ csteps' = Append(csteps, "found_url_in_decoded")
    /\ downloads' = downloads + 1
    /\ \/ /\ ComputeReturns("decoded_asset_sum")
          /\ UNCHANGED <<failed, ri>>
       \/ /\ ri' = ri + 1
          /\ UNCHANGED <<pc, failed, answer, steps, candidate_answer>>
       \/ /\ ri' = ri + 1
          /\ failed' = failed \cup {"error"}
          /\ UNCHANGED <<pc, answer, steps, candidate_answer>>
    /\ UNCHANGED <<post_raised, page, playwright, browser, context, text, submit_info,
                   page_html, attempted, submit_url, posts, escaped, result>>
    /\ UNCHANGED apivars

ComputeRawUrlsDone ==
    /\ pc = "compute_raw_urls"
    /\ ri > page.payload.raw
    /\ pc' = "compute_body"
    /\ UNCHANGED <<post_raised, page, playwright, browser, context, text, submit_info,
                   page_html, ri, csteps, answer, candidate_answer, steps,
                   attempted, submit_url, posts, downloads, failed, escaped,
                   result>>
    /\ UNCHANGED apivars

\* Lines 243-260: sum the numbers of the visible text; when reading it fails
\* the markup is used instead, and a failure of that ends compute with None.
ComputeBody ==
    /\ pc = "compute_body"
    /\ \/ \E body_has_number \in {HasNumber(page.text)} :
            /\ UNCHANGED failed
            /\ IF body_has_number
               THEN /\ csteps' = Append(csteps, "fallback_sum_numbers_in_body")
                    /\ ComputeReturns("body_sum")
               ELSE /\ UNCHANGED csteps
                    /\ ComputeReturns(None)
       \/ \E k \in Kinds,
             markup_has_number \in {b \in BOOLEAN : HasNumber(page.text) => b} :
            /\ failed' = failed \cup {k}
            /\ IF markup_has_number
               THEN /\ csteps' = Append(csteps, "fallback_sum_numbers_in_body")
                    /\ ComputeReturns("body_sum")
               ELSE /\ UNCHANGED csteps
                    /\ ComputeReturns(None)
       \/ \E k \in Kinds :
            /\ failed' = failed \cup {k}
            /\ UNCHANGED csteps
            /\ ComputeReturns(None)
    /\ UNCHANGED <<post_raised, page, playwright, browser, context, text, submit_info,
                   page_html, ri, attempted, submit_url, posts, downloads,
                   escaped, result>>
    /\ UNCHANGED apivars

\* Lines 333-373: with a .pdf or .csv anchor, download the first one (PDF
\* links first) and take a number from it; any failure is logged and the
\* candidate stays None.  Nothing else is tried afterwards.
LinkedAssetStage ==
    /\ pc = "assets"
    /\ page.links # {}
    /\ steps' = Append(steps, "found_assets")
    /\ downloads' = downloads + 1
    /\ \/ /\ candidate_answer' = "asset_value"
          /\ UNCHANGED failed
       \/ /\ candidate_answer' = None
          /\ UNCHANGED failed
       \/ /\ candidate_answer' = None
          /\ failed' = failed \cup {"error"}
    /\ pc' = "find_submit"
    /\ UNCHANGED <<post_raised, page, playwright, browser, context, text, submit_info,
                   page_html, ri, csteps, answer, attempted, submit_url,
                   posts, escaped, result>>
    /\ UNCHANGED apivars

\* Lines 374-378, 401-403: without such anchors, ask the page for its tables;
\* this call is outside any inner try, so its failure leaves the try block.
DomTableQuery ==
    /\ pc = "assets"
    /\ page.links = {}
    /\ \/ /\ steps' = Append(steps, IF page.tables THEN "dom_table_detected"
                                                   ELSE "text_inference")
          /\ pc' = IF page.tables THEN "dom_table" ELSE "text_inference"
          /\ UNCHANGED <<playwright, browser, context, failed, escaped, result>>
       \/ /\ \E k \in Kinds : Raise(k, TRUE)
          /\ UNCHANGED steps
    /\ UNCHANGED <<post_raised, page, text, submit_info, page_html, ri, csteps, answer,
                   candidate_answer, attempted, submit_url, posts, downloads>>
    /\ UNCHANGED apivars

\* Lines 379-400: sum a column of the first table; a failure resets the
\* candidate to None.
DomTableStage ==
    /\ pc = "dom_table"
    /\ \/ /\ candidate_answer' = "table_sum"
          /\ UNCHANGED failed
       \/ /\ candidate_answer' = candidate_answer
          /\ UNCHANGED failed
       \/ \E k \in Kinds :
            /\ candidate_answer' = None
            /\ failed' = failed \cup {k}
    /\ pc' = "find_submit"
    /\ UNCHANGED <<post_raised, page, playwright, browser, context, text, submit_info,
                   page_html, ri, csteps, answer, steps, attempted,
                   submit_url, posts, downloads, escaped, result>>
    /\ UNCHANGED apivars

\* FallbackGuess guessing the other way
FallbackGuess_False == "False"

\* Line 426: the guess made for a "true or false" question
FallbackGuess == True

\* Lines 404-426: the sum phrase asks for a page of the first PDF link; with
\* no sum phrase, "true or false" in the text is answered by a fixed guess.
TextInference ==
    /\ pc = "text_inference"
    /\ IF HasSumPhrase(text) THEN
          IF "pdf" \in page.links THEN
             /\ downloads' = downloads + 1
             /\ \/ /\ candidate_answer' = "pdf_page_number"
                   /\ UNCHANGED failed
                \/ /\ candidate_answer' = candidate_answer
                   /\ UNCHANGED failed
                \/ /\ candidate_answer' = candidate_answer
                   /\ failed' = failed \cup {"error"}
          ELSE UNCHANGED <<candidate_answer, downloads, failed>>
       ELSE IF HasTrueOrFalse(text) THEN
          /\ candidate_answer' = FallbackGuess
          /\ UNCHANGED <<downloads, failed>>
       ELSE UNCHANGED <<candidate_answer, downloads, failed>>
    /\ pc' = "find_submit"
    /\ UNCHANGED <<post_raised, page, playwright, browser, context, text, submit_info,
                   page_html, ri, csteps, answer, steps, attempted,
                   submit_url, posts, escaped, result>>
    /\ UNCHANGED apivars

\* Lines 428-441: record the candidate, resolve the submit URL, and start
\* from the result "no_action".
FindSubmitUrl ==
    /\ pc = "find_submit"
    /\ attempted' = candidate_answer
    /\ submit_url' = ResolveSubmitUrl(submit_info, page.submit)
    /\ result' = [status |-> "no_action", has_debug |-> TRUE,
                  debug |-> DebugOf(steps, attempted', submit_url', csteps),
                  has_error |-> FALSE, submit_code |-> None]
    /\ pc' = "submit"
    /\ UNCHANGED <<post_raised, page, playwright, browser, context, text, submit_info,
                   page_html, ri, csteps, answer, candidate_answer, steps,
                   posts, downloads, failed, escaped>>
    /\ UNCHANGED apivars

\* SubmitDecision without the test for a missing answer
SubmitDecision_NoAnswerTest(su, cand) ==
    IF su = None THEN "no_submit_url" ELSE "post"

\* SubmitDecision without the else branch for a missing submit URL
SubmitDecision_NoUrlKept(su, cand) ==
    IF su = None THEN "no_action"
    ELSE IF cand = None THEN "no_answer"
    ELSE "post"

\* SubmitDecision that skips the POST but leaves the status as it was
SubmitDecision_StatusKept(su, cand) ==
    IF su = None THEN "no_submit_url"
    ELSE IF cand = None THEN "no_action"
    ELSE "post"

\* Lines 443-455, 468-470: what run does with the submit URL and the candidate
SubmitDecision(su, cand) ==
    IF su = None THEN "no_submit_url"
    ELSE IF cand = None THEN "no_answer"
    ELSE "post"

\* AfterPost that tries the POST again when it raised
AfterPost_Retry(outcome) == IF outcome = "raise" THEN "submit" ELSE "cleanup"

\* Lines 465-467: after the POST, failed or not, run goes on to the cleanup
AfterPost(outcome) == "cleanup"

\* Line 467: the result of a failed POST
SubmitFailedResult(d) ==
    [status |-> "submit_failed", has_debug |-> TRUE, debug |-> d,
     has_error |-> FALSE, submit_code |-> None]

\* HTTP status codes the submit target may answer with
PostCodes == {"200", "400"}

\* Lines 443-470: no POST without a submit URL or without a candidate;
\* otherwise one requests.post, whose failure is reported as submit_failed.
Submit ==
    /\ pc = "submit"
    /\ LET d == SubmitDecision(submit_url, candidate_answer) IN
       IF d # "post" THEN
          /\ result' = [status |-> d, has_debug |-> TRUE, debug |-> Debug,
                        has_error |-> FALSE, submit_code |-> None]
          /\ pc' = "cleanup"
          /\ UNCHANGED <<posts, post_raised>>
       ELSE
          /\ posts' = posts + 1
          /\ \/ \E code \in PostCodes :
                  /\ result' = [status |-> "submitted", has_debug |-> TRUE,
                                debug |-> Debug, has_error |-> FALSE,
                                submit_code |-> code]
                  /\ pc' = AfterPost("ok")
                  /\ UNCHANGED post_raised
             \/ /\ result' = SubmitFailedResult(Debug)
                /\ pc' = AfterPost("raise")
                /\ post_raised' = TRUE
    /\ UNCHANGED <<page, playwright, browser, context, text, submit_info,
                   page_html, ri, csteps, answer, candidate_answer, steps,
                   attempted, submit_url, downloads, failed, escaped>>
    /\ UNCHANGED apivars

\* Lines 472-477: close the context, then the browser; a failure of either
\* call is swallowed, and a failure of the first skips the second.  The
\* pairs <<context, browser>> these lines can leave behind:
CloseOutcomes ==
    {<<"closed", "closed">>, <<"closed", browser>>, <<context, browser>>}

\* Lines 472-479: the cleanup, then `return result`, which leaves the
\* `with sync_playwright()` block.
Return ==
    /\ pc = "cleanup"
    /\ \E closed \in CloseOutcomes :
         /\ context' = ScopeExit(closed[1])
         /\ browser' = ScopeExit(closed[2])
    /\ playwright' = "stopped"
    /\ pc' = "done"
    /\ UNCHANGED <<post_raised, page, text, submit_info, page_html, ri, csteps,
                   answer, candidate_answer, steps, attempted, submit_url,
                   posts, downloads, failed, escaped, result>>
    /\ UNCHANGED apivars

Next ==
    \/ Launch
    \/ Goto
    \/ Content
    \/ InnerText
    \/ QueryResult
    \/ ComputeHtml
    \/ ComputeDecoded
    \/ ComputeJsonUrl
    \/ ComputeRawUrl
    \/ ComputeRawUrlsDone
    \/ ComputeBody
    \/ LinkedAssetStage
    \/ DomTableQuery
    \/ DomTableStage
    \/ TextInference
    \/ FindSubmitUrl
    \/ Submit
    \/ Return

Spec == Init /\ [][Next]_vars

-----------------------------------------------------------------------------
(* app.py: POST /api/solve and its background worker *)

\* The registry loaded at start-up (lines 30-51): email -> secret
SECRETS == [e \in {"alice"} |-> "s-alice"]

\* dict.get on the registry: None for an unknown key
SecretsGet(e) == IF e \in DOMAIN SECRETS THEN SECRETS[e] ELSE None

\* Values a field of the JSON body can have: missing or null, empty, or a
\* non-empty value.
Emails == {None, "", "alice", "mallory"}

SecretValues == {None, "", "s-alice", "wrong"}

Urls == {None, "", "u"}

\* A request body: not parseable as JSON, JSON that is not an object (a list,
\* a number, null), or an object with its three fields.
Bodies ==
    [kind : {"invalid_json", "not_object"},
     email : {None}, secret : {None}, url : {None}]
    \cup [kind : {"object"}, email : Emails, secret : SecretValues, url : Urls]

\* Python truthiness of a field value
Truthy(v) == v # None /\ v # ""

\* Lines 80-117: the response api_solve gives to a body, and whether it
\* starts a worker.  get_json raises on a body that is not JSON (line 85);
\* payload.get (line 91) raises on a JSON value that is not an object, which
\* nothing catches, so Flask answers 500.
api_solve(body) ==
    IF body.kind = "invalid_json" THEN
       [code |-> "400", status |-> "invalid json", start |-> FALSE]
    ELSE IF body.kind = "not_object" THEN
       [code |-> "500", status |-> "internal server error", start |-> FALSE]
    ELSE IF ~(Truthy(body.email) /\ Truthy(body.secret) /\ Truthy(body.url)) THEN
       [code |-> "400", status |-> "missing required fields", start |-> FALSE]
    ELSE IF SecretsGet(body.email) = None
            \/ body.secret # SecretsGet(body.email) THEN
       [code |-> "403", status |-> "invalid secret", start |-> FALSE]
    ELSE [code |-> "200", status |-> "accepted", start |-> TRUE]

\* The page of the run that is held still while requests are handled
IdlePage ==
    [text |-> EmptyText, payload |-> NoPayload, links |-> {},
     tables |-> FALSE, submit |-> {}]

InitApi == Init /\ page = IdlePage

\* Lines 80-117: one request handled from start to response; an accepted
\* request starts its daemon thread (lines 112-115) and answers at once.
ApiSolve ==
    /\ Len(responses) < MaxRequests
    /\ \E body \in Bodies :
         LET r == api_solve(body) IN
         /\ responses' = Append(responses,
                [body |-> body, code |-> r.code, status |-> r.status])
         /\ threads' = IF r.start
                        THEN Append(threads, [req |-> Len(responses) + 1,
                                              state |-> "running"])
                        ELSE threads
    /\ UNCHANGED runvars

\* Lines 120-126: a worker's solver.run returns or raises; either way
\* _background_process ends.
BackgroundFinish ==
    /\ \E i \in 1..Len(threads) :
         /\ threads[i].state = "running"
         /\ threads' = [threads EXCEPT ![i].state = "finished"]
    /\ UNCHANGED responses
    /\ UNCHANGED runvars

NextApi ==
    \/ ApiSolve
    \/ BackgroundFinish

SpecApi == InitApi /\ [][NextApi]_vars

\* Number of workers started for request i
RunsOf(i) == Cardinality({j \in 1..Len(threads) : threads[j].req = i})

\* The body meets the acceptance rule of the interface
Acceptable(b) ==
    /\ b.kind = "object"
    /\ Truthy(b.email) /\ Truthy(b.secret) /\ Truthy(b.url)
    /\ SecretsGet(b.email) # None
    /\ b.secret = SecretsGet(b.email)

\* The body is invalid or lacks a required field
Malformed(b) ==
    \/ b.kind # "object"
    \/ ~(Truthy(b.email) /\ Truthy(b.secret) /\ Truthy(b.url))

-----------------------------------------------------------------------------
(* Properties of a run *)

\* run has left the heuristics behind: the candidate is final
PastPipeline == pc \in {"find_submit", "submit", "cleanup", "done"}

\* run has returned through `return result`, not through a handler
Returned == pc = "done" /\ escaped = "none"

\* C1: a run whose candidate answer is absent never issues a POST, whatever
\* stages ran before and whether or not a submit URL was found.
C1_NoPostWithoutAnswer ==
    candidate_answer = None => posts = 0

\* C1 witness: a submit URL was found, the candidate is absent, and the
\* submission step has gone by without a POST.
C1_Witness ==
    /\ pc = "cleanup"
    /\ submit_url # None
    /\ candidate_answer = None
    /\ posts = 0

\* C2 as claimed: a run that returns with an absent candidate reports
\* no_answer, submit URL or not.
C2_NoAnswerAlways ==
    (Returned /\ candidate_answer = None) => result.status = "no_answer"

\* C2 amended: a run that returns with an absent candidate reports no_answer
\* when a submit URL was found and no_submit_url when none was.
C2_NoAnswerWithSubmitUrl ==
    (Returned /\ candidate_answer = None) =>
        result.status = (IF submit_url # None THEN "no_answer" ELSE "no_submit_url")

\* C2 witness: a returned run with a submit URL and no candidate
C2_Witness ==
    /\ Returned
    /\ candidate_answer = None
    /\ submit_url # None
    /\ result.status = "no_answer"

\* C3: at most one POST per run; a POST that raises is not tried again, the
\* status is submit_failed, and the answer is still in the returned debug.
C3_SinglePostNoRetry ==
    /\ posts <= 1
    /\ post_raised =>
          /\ posts = 1
          /\ result.status = "submit_failed"
          /\ result.has_debug
          /\ candidate_answer # None
          /\ result.debug.attempted_answer = candidate_answer

\* C3 witness: a run that has returned after its POST raised
C3_Witness ==
    /\ Returned
    /\ post_raised
    /\ result.status = "submit_failed"

\* C4: a candidate, once present, is never changed by a later step, and the
\* free-text stage is only entered while the candidate is absent.
C4_ShortCircuit ==
    [][/\ candidate_answer # None => candidate_answer' = candidate_answer
       /\ (pc' = "text_inference" /\ pc # "text_inference") =>
             (candidate_answer = None /\ answer = None)]_vars

\* C4 witness: the decoded payload gave the answer on a page with no links
\* and no table whose text says "true or false"; the free-text stage was not
\* entered and the answer was kept.
C4_Witness ==
    /\ Returned
    /\ page.payload.ans # None
    /\ page.links = {}
    /\ ~page.tables
    /\ HasTrueOrFalse(text)
    /\ ~HasSumPhrase(text)
    /\ ~InSeq("text_inference", steps)
    /\ candidate_answer = page.payload.ans

\* C5 as claimed: when the linked-asset stage ends without a candidate, the
\* next stage (DOM table, then free text) is attempted.
C5_NextStageAfterFailure ==
    (PastPipeline /\ escaped = "none" /\ InSeq("found_assets", steps)
        /\ candidate_answer = None) =>
        (InSeq("dom_table_detected", steps) \/ InSeq("text_inference", steps))

C7_AnyFailureIsError ==
    pc = "done" =>
        /\ result.status \in Statuses
        /\ "error" \in failed => (result.status = "error" /\ result.has_error)

\* C7 amended: run ends with one of the seven statuses; a failure that
\* reaches run's handlers and is no automation timeout makes the status error
\* with the description kept; a run no failure escapes from ends submitted,
\* no_answer, no_submit_url or submit_failed.
C7_EscapedFailureIsError ==
    /\ pc # "done" => (escaped = "none" /\ ENABLED Next)
    /\ pc = "done" =>
          /\ result.status \in Statuses
          /\ escaped = "error" => (result.status = "error" /\ result.has_error)
          /\ escaped = "none" =>
                result.status \in {"submitted", "no_answer", "no_submit_url",
                                   "submit_failed"}

\* C7 witness: a failure that is no timeout reached the handlers
C7_Witness ==
    /\ pc = "done"
    /\ escaped = "error"
    /\ result.status = "error"
    /\ Len(steps) > 0

\* C8 as claimed: once a browser operation has timed out, the run ends with
\* playwright_timeout and without a POST.
C8_TimeoutAborts ==
    (pc = "done" /\ "timeout" \in failed) =>
        (result.status = "playwright_timeout" /\ posts = 0)

\* C9: when run returns, by any path, the browser and the context it
\* acquired are released.
C9_BrowserReleased ==
    pc = "done" => (browser # "open" /\ context # "open")

\* C9 witness: a run that ended in the timeout handler after the browser and
\* the context were opened
C9_Witness ==
    /\ pc = "done"
    /\ escaped = "timeout"
    /\ browser = "closed"
    /\ context = "closed"

\* C10 as claimed: whatever the status, the returned result carries the
\* debug trace accumulated so far.
C10_DebugAlwaysReturned ==
    (pc = "done" /\ Len(steps) > 0) =>
        (result.has_debug /\ result.debug.steps = steps)

\* C11 as claimed: every request is answered 200 accepted exactly when its
\* body is acceptable, 400 when the body is invalid or a field is missing,
\* 403 otherwise; an accepted request has started exactly one worker, a
\* rejected one none, whether or not the worker has finished.
C11_ApiContract ==
    \A i \in 1..Len(responses) :
        LET r == responses[i] IN
        /\ (r.code = "200" /\ r.status = "accepted") <=> Acceptable(r.body)
        /\ Malformed(r.body) => r.code = "400"
        /\ (~Malformed(r.body) /\ ~Acceptable(r.body)) => r.code = "403"
        /\ RunsOf(i) = IF r.code = "200" THEN 1 ELSE 0

\* C12: once the payload has been decoded and its object holds a non-null
\* "answer", that value is the candidate and nothing else is tried: no
\* download, no table query, no free-text stage; compute's trace is
\* decoded_atob, found_json_in_decoded.
C12_DirectAnswerEndsPipeline ==
    (InSeq("decoded_atob", csteps) /\ page.payload.parsed
        /\ page.payload.ans # None) =>
        /\ csteps = <<"decoded_atob", "found_json_in_decoded">>
        /\ answer = page.payload.ans
        /\ candidate_answer = page.payload.ans
        /\ downloads = 0
        /\ pc \in {"find_submit", "submit", "cleanup", "done"}
        /\ escaped = "none"
        /\ ~InSeq("found_assets", steps)
        /\ ~InSeq("dom_table_detected", steps)
        /\ ~InSeq("text_inference", steps)

\* C12 witness: a returned run whose payload had the answer, a url field and
\* raw URLs, on a page with asset links: none of them was fetched.
C12_Witness ==
    /\ Returned
    /\ page.payload.ans # None
    /\ page.payload.url
    /\ page.payload.raw > 0
    /\ page.links # {}
    /\ downloads = 0
    /\ result.debug.compute_steps = <<"decoded_atob", "found_json_in_decoded">>
    /\ result.debug.attempted_answer = page.payload.ans

\* C13: the located submit target is the markup match if there is one, else
\* the <pre> value, else the match in the visible text as read, and is absent
\* exactly when none of the three exists; run takes the locator's finding.
C13_SubmitTargetPriority ==
    /\ InSeq("page_loaded", steps) =>
          /\ "html" \in page.submit => submit_info = "html_url"
          /\ ("html" \notin page.submit /\ "pre" \in page.submit) =>
                submit_info = "pre_url"
          /\ (page.submit = {} /\ "submit_url" \in text) =>
                submit_info = "text_url"
          /\ submit_info = None <=>
                (page.submit = {} /\ "submit_url" \notin text)
    /\ (pc \in {"submit", "cleanup"} \/ Returned) => submit_url = submit_info

\* C13 witness: all three sources hold a URL and the markup match was taken
C13_Witness ==
    /\ pc = "submit"
    /\ page.submit = {"html", "pre"}
    /\ "submit_url" \in text
    /\ submit_url = "html_url"

\* C14 as claimed: with the sum phrase in
\* the text and a PDF link on the page, a run whose earlier stages gave no
\* candidate enters the free-text stage (and fetches page N of the PDF there).
C14_SumPhraseUsesPdfPage ==
    (PastPipeline /\ escaped = "none" /\ HasSumPhrase(text)
        /\ "pdf" \in page.links /\ candidate_answer = None) =>
        InSeq("text_inference", steps)

\* C15 as claimed: the raw URLs of the decoded text are tried only when no
\* object could be parsed from it.
C15_RawUrlsOnlyWithoutObject ==
    page.payload.parsed => ~InSeq("found_url_in_decoded", csteps)

\* C16: run never returns no_action: the status of a returned result is one
\* of the six others.
C16_NoActionNeverReturned ==
    pc = "done" =>
        result.status \in {"submitted", "no_answer", "no_submit_url",
                           "submit_failed", "playwright_timeout", "error"}

\* C16 witness: a run that held the no_action result before the submission
\* step has returned with another status, here without a submit URL.
C16_Witness ==
    /\ Returned
    /\ submit_url = None
    /\ result.has_debug
    /\ result.status = "no_submit_url"

====
